---- MODULE Spec2Model ----
(***************************************************************************)
(* Shop API (src/main.py, src/schemas.py): request validation, the         *)
(* document mapper and the route handlers over a document store.           *)
(*                                                                         *)
(* Python values are tagged pairs <<type, payload>>; a dict (a JSON body,  *)
(* a stored document, a filter) is a function from field names to values,  *)
(* so that an absent key is a key outside the DOMAIN.  A str is a sequence *)
(* of one-character strings.  A float is counted in halves (payload 3 is   *)
(* 1.5), an int in units.                                                  *)
(***************************************************************************)
EXTENDS Integers, Sequences, FiniteSets, TLC

VARIABLES db, product, order, nextId, response

vars == <<db, product, order, nextId, response>>

(***************************************************************************)
(* Bounds                                                                  *)
(***************************************************************************)
MaxProducts == 2
MaxOrders == 2
MaxSearchProducts == 1
MaxTitleLen == 2
MaxQLen == 2
MaxCollections == 11

(***************************************************************************)
(* Python values                                                           *)
(***************************************************************************)
None == <<"NoneType", 0>>
StrV(s) == <<"str", s>>
IntV(n) == <<"int", n>>
FloatV(h) == <<"float", h>>
BoolV(b) == <<"bool", b>>
DictV(d) == <<"dict", d>>
ListV(l) == <<"list", l>>

IsNone(v) == v[1] = "NoneType"
IsStr(v) == v[1] = "str"
IsBool(v) == v[1] = "bool"
IsInt(v) == v[1] = "int"
IsNumber(v) == v[1] \in {"int", "float"}
IsList(v) == v[1] = "list"

EmptyDict == [k \in {} |-> None]

\* {k: v} when present, {} when the caller leaves the key out
Entry(present, k, v) == IF present THEN k :> v ELSE EmptyDict

\* dict.get(k, default)
Get(doc, k, default) == IF k \in DOMAIN doc THEN doc[k] ELSE default

\* the value of a number, in halves
Halves(v) == IF v[1] = "int" THEN 2 * v[2] ELSE v[2]

\* float(x): TypeError on None, on a str that is no number
FloatFails(v) == ~IsNumber(v) /\ ~IsBool(v)
PyFloat(v) ==
    IF IsBool(v) THEN FloatV(IF v[2] THEN 2 ELSE 0) ELSE FloatV(Halves(v))

\* bool(x): truthiness
Truthy(v) ==
    CASE IsNone(v) -> FALSE
      [] IsBool(v) -> v[2]
      [] IsStr(v) -> Len(v[2]) > 0
      [] IsNumber(v) -> v[2] # 0
      [] OTHER -> TRUE
PyBool(v) == BoolV(Truthy(v))

Digits == <<"0", "1", "2", "3", "4", "5", "6", "7", "8", "9">>

\* str(ObjectId): the text of the identifier
PyStrId(v) == IF IsNone(v) THEN StrV(<<"N", "o", "n", "e">>) ELSE StrV(<<Digits[v[2] + 1]>>)

(***************************************************************************)
(* Strings                                                                 *)
(***************************************************************************)
StringsOver(alphabet, n) == UNION {[1..k -> alphabet] : k \in 0..n}

Lower(c) == IF c = "A" THEN "a" ELSE IF c = "B" THEN "b" ELSE c

\* one pattern character against one subject character: "." is the regular
\* expression wildcard, every other character of the alphabet is a literal
CharMatches(p, c, ignoreCase) ==
    \/ p = "."
    \/ IF ignoreCase THEN Lower(p) = Lower(c) ELSE p = c

\* an unanchored regular-expression search of pat in s
RegexSearch(pat, s, ignoreCase) ==
    \E i \in 0..(Len(s) - Len(pat)) :
        \A j \in 1..Len(pat) : CharMatches(pat[j], s[i + j], ignoreCase)

(***************************************************************************)
(* schemas.py                                                              *)
(***************************************************************************)
OptionalStrOk(body, k) == k \notin DOMAIN body \/ IsNone(body[k]) \/ IsStr(body[k])
RequiredStrOk(body, k) == k \in DOMAIN body /\ IsStr(body[k])
\* float with ge=0
NonNegFloatOk(v) == IsNumber(v) /\ Halves(v) >= 0

TitleOk_Optional(body) == OptionalStrOk(body, "title")
TitleOk(body) == RequiredStrOk(body, "title")

PriceOk(body) == "price" \in DOMAIN body /\ NonNegFloatOk(body["price"])

\* Product(**body) raises no ValidationError
ProductValid(body) ==
    /\ TitleOk(body)
    /\ OptionalStrOk(body, "description")
    /\ PriceOk(body)
    /\ RequiredStrOk(body, "category")
    /\ OptionalStrOk(body, "image")
    /\ ("in_stock" \in DOMAIN body => IsBool(body["in_stock"]))

\* the validated Product, defaults applied, as the dict that is stored
Product(body) ==
    [title |-> Get(body, "title", None),
     description |-> Get(body, "description", None),
     price |-> PyFloat(body["price"]),
     category |-> body["category"],
     image |-> Get(body, "image", None),
     in_stock |-> Get(body, "in_stock", BoolV(TRUE))]

(***************************************************************************)
(* main.py: output models and the document mapper                          *)
(***************************************************************************)
\* ProductOut(...) raises: a float() that fails or a field of the wrong type
ProductOutFails(doc) ==
    \/ FloatFails(Get(doc, "price", None))
    \/ ~IsStr(Get(doc, "title", None))
    \/ ~IsStr(Get(doc, "category", None))
    \/ ~(IsNone(Get(doc, "description", None)) \/ IsStr(Get(doc, "description", None)))
    \/ ~(IsNone(Get(doc, "image", None)) \/ IsStr(Get(doc, "image", None)))

InStockOut_NoDefault(doc) == PyBool(Get(doc, "in_stock", None))
InStockOut(doc) == PyBool(Get(doc, "in_stock", BoolV(TRUE)))

to_product_out(doc) ==
    [id |-> PyStrId(Get(doc, "_id", None)),
     title |-> Get(doc, "title", None),
     description |-> Get(doc, "description", None),
     price |-> PyFloat(Get(doc, "price", None)),
     category |-> Get(doc, "category", None),
     image |-> Get(doc, "image", None),
     in_stock |-> InStockOut(doc)]

(***************************************************************************)
(* The store accessor (database.py)                                        *)
(***************************************************************************)
Collection(name) == IF name = "product" THEN product ELSE order

\* one condition of a filter against a document: a dict is an operator
\* expression ($regex with $options), any other value is compared for equality
CondMatches(doc, k, cond) ==
    IF cond[1] = "dict"
    THEN /\ k \in DOMAIN doc
         /\ IsStr(doc[k])
         /\ RegexSearch(cond[2].regex[2], doc[k][2], cond[2].options = "i")
    ELSE k \in DOMAIN doc /\ doc[k] = cond

DocMatches(doc, filter_dict) ==
    \A k \in DOMAIN filter_dict : CondMatches(doc, k, filter_dict[k])

RECURSIVE SelectDocs(_, _)
SelectDocs(docs, filter_dict) ==
    IF docs = <<>> THEN <<>>
    ELSE IF DocMatches(Head(docs), filter_dict)
         THEN <<Head(docs)>> \o SelectDocs(Tail(docs), filter_dict)
         ELSE SelectDocs(Tail(docs), filter_dict)

\* find(filter) in insertion order
get_documents(collection_name, filter_dict) ==
    SelectDocs(Collection(collection_name), filter_dict)

ObjectId(n) == <<"ObjectId", n>>

\* the document that create_document inserts: the model's fields and a new _id
NewDocument(data, n) == ("_id" :> ObjectId(n)) @@ data

create_document(collection_name, data) ==
    /\ product' = IF collection_name = "product"
                  THEN Append(product, NewDocument(data, nextId)) ELSE product
    /\ order' = IF collection_name = "order"
                THEN Append(order, NewDocument(data, nextId)) ELSE order
    /\ nextId' = nextId + 1

(***************************************************************************)
(* main.py: product routes                                                 *)
(***************************************************************************)
Reply(op, req, status, body) == [op |-> op, req |-> req, status |-> status, body |-> body]

ProductFilter_NoCategory(category, q) ==
    Entry(Truthy(q), "title", DictV([regex |-> q, options |-> "i"]))

\* filter_dict of list_products: a falsy parameter (None or "") adds no condition
ProductFilter(category, q) ==
    Entry(Truthy(category), "category", category)
    @@ Entry(Truthy(q), "title", DictV([regex |-> q, options |-> "i"]))

ListProductsBody(docs) == [i \in 1..Len(docs) |-> to_product_out(docs[i])]

list_products(category, q) ==
    LET req == [category |-> category, q |-> q]
        docs == get_documents("product", ProductFilter(category, q))
    IN /\ response' =
            IF db = "None" THEN Reply("list_products", req, 200, <<>>)
            ELSE IF \E i \in 1..Len(docs) : ProductOutFails(docs[i])
                 THEN Reply("list_products", req, 500, <<>>)
                 ELSE Reply("list_products", req, 200, ListProductsBody(docs))
       /\ UNCHANGED <<db, product, order, nextId>>

\* create_product without the check of the store handle
create_product_NoHandleCheck(body, limit) ==
    IF ~ProductValid(body)
    THEN /\ response' = Reply("create_product", body, 422, None)
         /\ UNCHANGED <<db, product, order, nextId>>
    ELSE /\ Len(product) < limit
         /\ create_document("product", Product(body))
         /\ response' = Reply("create_product", body, 200, PyStrId(ObjectId(nextId)))
         /\ UNCHANGED db

\* create_product that replaces the newest product instead of adding one
create_product_Replace(body, limit) ==
    IF ~ProductValid(body)
    THEN /\ response' = Reply("create_product", body, 422, None)
         /\ UNCHANGED <<db, product, order, nextId>>
    ELSE IF db = "None"
    THEN /\ response' = Reply("create_product", body, 500, None)
         /\ UNCHANGED <<db, product, order, nextId>>
    ELSE /\ Len(product) < limit
         /\ product' = IF product = <<>> THEN <<NewDocument(Product(body), nextId)>>
                       ELSE [product EXCEPT ![Len(product)] = NewDocument(Product(body), nextId)]
         /\ nextId' = nextId + 1
         /\ response' = Reply("create_product", body, 200, PyStrId(ObjectId(nextId)))
         /\ UNCHANGED <<db, order>>

create_product(body, limit) ==
    IF ~ProductValid(body)
    THEN /\ response' = Reply("create_product", body, 422, None)
         /\ UNCHANGED <<db, product, order, nextId>>
    ELSE IF db = "None"
    THEN /\ response' = Reply("create_product", body, 500, None)
         /\ UNCHANGED <<db, product, order, nextId>>
    ELSE /\ Len(product) < limit
         /\ create_document("product", Product(body))
         /\ response' = Reply("create_product", body, 200, PyStrId(ObjectId(nextId)))
         /\ UNCHANGED db

(***************************************************************************)
(* schemas.py: OrderItem and Order                                         *)
(***************************************************************************)
AtPositions(s) == {i \in 1..Len(s) : s[i] = "@"}

\* EmailStr: one "@", a local part, a domain with a period inside it
IsEmail(s) ==
    /\ Cardinality(AtPositions(s)) = 1
    /\ LET at == CHOOSE i \in AtPositions(s) : TRUE
       IN /\ at > 1
          /\ at + 2 < Len(s)
          /\ s[at + 1] # "."
          /\ s[Len(s)] # "."
          /\ \E i \in (at + 2)..(Len(s) - 1) : s[i] = "."

\* EmailStr returns the address with its domain in lower case
NormalizeEmail(s) ==
    LET at == CHOOSE i \in AtPositions(s) : TRUE
    IN [i \in 1..Len(s) |-> IF i > at THEN Lower(s[i]) ELSE s[i]]

EmailOk(body) ==
    /\ RequiredStrOk(body, "customer_email")
    /\ IsEmail(body["customer_email"][2])

QuantityOk_ZeroAllowed(item) ==
    "quantity" \in DOMAIN item /\ IsInt(item["quantity"]) /\ item["quantity"][2] >= 0

\* int with ge=1
QuantityOk(item) ==
    "quantity" \in DOMAIN item /\ IsInt(item["quantity"]) /\ item["quantity"][2] >= 1

ItemPriceOk(item) == "price" \in DOMAIN item /\ NonNegFloatOk(item["price"])

\* OrderItem(**item) raises no ValidationError
OrderItemValid(item) ==
    /\ RequiredStrOk(item, "product_id")
    /\ RequiredStrOk(item, "title")
    /\ ItemPriceOk(item)
    /\ QuantityOk(item)
    /\ OptionalStrOk(item, "image")

OrderItem(item) ==
    [product_id |-> item["product_id"],
     title |-> item["title"],
     price |-> PyFloat(item["price"]),
     quantity |-> item["quantity"],
     image |-> Get(item, "image", None)]

ItemsValid_NonEmpty(v) ==
    IsList(v) /\ Len(v[2]) >= 1 /\ \A i \in 1..Len(v[2]) : OrderItemValid(v[2][i])

ItemsValid(v) ==
    IsList(v) /\ \A i \in 1..Len(v[2]) : OrderItemValid(v[2][i])

\* List[OrderItem]: every element becomes an OrderItem, in order
OrderItems(v) == ListV([i \in 1..Len(v[2]) |-> OrderItem(v[2][i])])

AmountsOk(body) ==
    /\ "subtotal" \in DOMAIN body /\ NonNegFloatOk(body["subtotal"])
    /\ ("tax" \in DOMAIN body => NonNegFloatOk(body["tax"]))
    /\ "total" \in DOMAIN body /\ NonNegFloatOk(body["total"])

\* Order(**body) raises no ValidationError
OrderValid(body) ==
    /\ RequiredStrOk(body, "customer_name")
    /\ EmailOk(body)
    /\ RequiredStrOk(body, "shipping_address")
    /\ "items" \in DOMAIN body /\ ItemsValid(body["items"])
    /\ AmountsOk(body)
    /\ ("status" \in DOMAIN body => IsStr(body["status"]))

Pending == StrV(<<"p", "e", "n", "d", "i", "n", "g">>)

\* the validated Order as the dict that is stored; a default is not validated,
\* so an absent tax stays the int 0
Order(body) ==
    [customer_name |-> body["customer_name"],
     customer_email |-> StrV(NormalizeEmail(body["customer_email"][2])),
     shipping_address |-> body["shipping_address"],
     items |-> OrderItems(body["items"]),
     subtotal |-> PyFloat(body["subtotal"]),
     tax |-> IF "tax" \in DOMAIN body THEN PyFloat(body["tax"]) ELSE IntV(0),
     total |-> PyFloat(body["total"]),
     status |-> Get(body, "status", Pending)]

(***************************************************************************)
(* main.py: OrderOut, to_order_out and the order routes                    *)
(***************************************************************************)
\* items: List[OrderItem] of OrderOut validates every element of the list
OrderOutItemsFail(doc) == ~ItemsValid(Get(doc, "items", ListV(<<>>)))

\* OrderOut(...) raises: a float() that fails, a field of the wrong type or an
\* item that is no OrderItem
OrderOutFails(doc) ==
    \/ FloatFails(Get(doc, "subtotal", IntV(0)))
    \/ FloatFails(Get(doc, "tax", IntV(0)))
    \/ FloatFails(Get(doc, "total", IntV(0)))
    \/ ~IsStr(Get(doc, "customer_name", None))
    \/ ~IsStr(Get(doc, "customer_email", None))
    \/ ~IsStr(Get(doc, "shipping_address", None))
    \/ ~IsStr(Get(doc, "status", Pending))
    \/ OrderOutItemsFail(doc)

\* to_order_out without the defaults of the amounts and of the status
to_order_out_NoDefaults(doc) ==
    [id |-> PyStrId(Get(doc, "_id", None)),
     customer_name |-> Get(doc, "customer_name", None),
     customer_email |-> Get(doc, "customer_email", None),
     shipping_address |-> Get(doc, "shipping_address", None),
     items |-> OrderItems(Get(doc, "items", ListV(<<>>))),
     subtotal |-> PyFloat(Get(doc, "subtotal", IntV(1))),
     tax |-> PyFloat(Get(doc, "tax", IntV(1))),
     total |-> PyFloat(Get(doc, "total", IntV(1))),
     status |-> Get(doc, "status", StrV(<<>>))]

to_order_out(doc) ==
    [id |-> PyStrId(Get(doc, "_id", None)),
     customer_name |-> Get(doc, "customer_name", None),
     customer_email |-> Get(doc, "customer_email", None),
     shipping_address |-> Get(doc, "shipping_address", None),
     items |-> OrderItems(Get(doc, "items", ListV(<<>>))),
     subtotal |-> PyFloat(Get(doc, "subtotal", IntV(0))),
     tax |-> PyFloat(Get(doc, "tax", IntV(0))),
     total |-> PyFloat(Get(doc, "total", IntV(0))),
     status |-> Get(doc, "status", Pending)]

ListOrdersBody(docs) == [i \in 1..Len(docs) |-> to_order_out(docs[i])]

list_orders ==
    LET docs == get_documents("order", EmptyDict)
    IN /\ response' =
            IF db = "None" THEN Reply("list_orders", None, 200, <<>>)
            ELSE IF \E i \in 1..Len(docs) : OrderOutFails(docs[i])
                 THEN Reply("list_orders", None, 500, <<>>)
                 ELSE Reply("list_orders", None, 200, ListOrdersBody(docs))
       /\ UNCHANGED <<db, product, order, nextId>>

create_order(body, limit) ==
    IF ~OrderValid(body)
    THEN /\ response' = Reply("create_order", body, 422, None)
         /\ UNCHANGED <<db, product, order, nextId>>
    ELSE IF db = "None"
    THEN /\ response' = Reply("create_order", body, 500, None)
         /\ UNCHANGED <<db, product, order, nextId>>
    ELSE /\ Len(order) < limit
         /\ create_document("order", Order(body))
         /\ response' = Reply("create_order", body, 200, PyStrId(ObjectId(nextId)))
         /\ UNCHANGED db

(***************************************************************************)
(* main.py: GET /test                                                      *)
(***************************************************************************)
CollectionsLimit == 10

FirstNames_All(names) == names

\* collections[:10]
FirstNames(names) == SubSeq(names, 1, IF Len(names) < CollectionsLimit THEN Len(names) ELSE CollectionsLimit)

\* names: what db.list_collection_names() returns (nothing when it raises);
\* listingFails: it raises;
\* urlSet, nameSet: DATABASE_URL and DATABASE_NAME are set in the environment
test_database(names, listingFails, urlSet, nameSet) ==
    LET req == [names |-> names, listingFails |-> listingFails]
        database == IF db = "None" THEN "Available but not initialized"
                    ELSE IF listingFails THEN "Connected but Error"
                    ELSE "Connected & Working"
        body == [backend |-> "Running",
                 database |-> database,
                 database_url |-> IF urlSet THEN "Set" ELSE "Not Set",
                 database_name |-> IF nameSet THEN "Set" ELSE "Not Set",
                 connection_status |-> IF db = "None" THEN "Not Connected" ELSE "Connected",
                 collections |-> IF db = "None" \/ listingFails THEN <<>> ELSE FirstNames(names)]
    IN /\ response' = Reply("test_database", req, 200, body)
       /\ UNCHANGED <<db, product, order, nextId>>

(***************************************************************************)
(* Product search: titles and categories vary, the store is configured     *)
(***************************************************************************)
TitleAlphabet == {"a", "."}
QueryAlphabet == {"A", "."}

StoredCategories == {StrV(<<"a">>), StrV(<<"A">>)}
QueryCategories == {None, StrV(<<>>), StrV(<<"a">>)}

SearchBodies ==
    {[title |-> StrV(t), price |-> IntV(1), category |-> c] :
        t \in StringsOver(TitleAlphabet, MaxTitleLen), c \in StoredCategories}

SearchQueries == {None} \cup {StrV(s) : s \in StringsOver(QueryAlphabet, MaxQLen)}

NoReply == Reply("none", None, 0, None)

InitSearch ==
    /\ db = "Database"
    /\ product = <<>>
    /\ order = <<>>
    /\ nextId = 1
    /\ response = NoReply

NextSearch ==
    \/ \E body \in SearchBodies : create_product(body, MaxSearchProducts)
    \/ \E c \in QueryCategories, q \in SearchQueries : list_products(c, q)

SpecSearch == InitSearch /\ [][NextSearch]_vars

(***************************************************************************)
(* Request bodies                                                          *)
(***************************************************************************)
TitleA == StrV(<<"a">>)
TextD == StrV(<<"d">>)
TextI == StrV(<<"i">>)
Shipped == StrV(<<"s">>)

GoodEmail == StrV(<<"a", "@", "b", ".", "c", "o">>)
MixedCaseEmail == StrV(<<"A", "@", "B", ".", "c", "o">>)
BadEmails ==
    {StrV(<<"a", "@", "b">>), StrV(<<"a", "b", ".", "c", "o">>),
     StrV(<<"@", "b", ".", "c", "o">>), StrV(<<"a", "@", "@", "b", ".", "c", "o">>)}

Item(price, quantity) ==
    [product_id |-> StrV(<<"1">>), title |-> TitleA, price |-> price, quantity |-> quantity]
GoodItem == Item(IntV(1), IntV(2))
ItemWithImage == Item(FloatV(3), IntV(1)) @@ ("image" :> TextI)

OrderBody(email, items) ==
    [customer_name |-> StrV(<<"a">>), customer_email |-> email,
     shipping_address |-> StrV(<<"d">>), items |-> ListV(items),
     subtotal |-> IntV(2), total |-> FloatV(5)]

\* product bodies that pass validation: every field varies
ValidProductBodies ==
    {[title |-> StrV(t), price |-> p, category |-> TitleA] @@ opt :
        t \in {<<>>, <<"a">>},
        p \in {IntV(0), FloatV(3)},
        opt \in {EmptyDict,
                 [in_stock |-> BoolV(FALSE)],
                 [description |-> TextD, image |-> None, in_stock |-> BoolV(TRUE)],
                 [description |-> None, image |-> TextI]}}

\* one fault each
InvalidProductBodies ==
    {[price |-> IntV(1), category |-> TitleA],
     [title |-> None, price |-> IntV(1), category |-> TitleA],
     [title |-> TitleA, price |-> IntV(-1), category |-> TitleA],
     [title |-> TitleA, price |-> FloatV(-1), category |-> TitleA],
     [title |-> TitleA, category |-> TitleA],
     [title |-> TitleA, price |-> IntV(1)]}

ValidOrderBodies ==
    {OrderBody(e, items) @@ tax @@ status :
        e \in {GoodEmail, MixedCaseEmail},
        items \in {<<>>, <<GoodItem, ItemWithImage>>},
        tax \in {EmptyDict, [tax |-> FloatV(1)]},
        status \in {EmptyDict, [status |-> Shipped]}}

InvalidOrderBodies ==
    {OrderBody(e, <<GoodItem>>) : e \in BadEmails}
    \cup {OrderBody(GoodEmail, <<GoodItem, Item(IntV(-1), IntV(1))>>),
          OrderBody(GoodEmail, <<Item(FloatV(-1), IntV(1))>>),
          OrderBody(GoodEmail, <<Item(IntV(1), IntV(0))>>),
          [subtotal |-> IntV(-1)] @@ OrderBody(GoodEmail, <<>>),
          [total |-> FloatV(-1)] @@ OrderBody(GoodEmail, <<>>),
          [tax |-> IntV(-1)] @@ OrderBody(GoodEmail, <<>>),
          [customer_name |-> None] @@ OrderBody(GoodEmail, <<>>)}

(***************************************************************************)
(* Products: every field of the body varies                                *)
(***************************************************************************)
\* a document the collection holds from before, written without in_stock
LegacyProduct ==
    [_id |-> ObjectId(0), title |-> TitleA, price |-> IntV(2), category |-> TitleA]

InitProduct ==
    /\ db = "Database"
    /\ product \in {<<>>, <<LegacyProduct>>}
    /\ order = <<>>
    /\ nextId = 1
    /\ response = NoReply

NextProduct ==
    \/ \E body \in ValidProductBodies \cup InvalidProductBodies :
          create_product(body, MaxProducts)
    \/ list_products(None, None)

SpecProduct == InitProduct /\ [][NextProduct]_vars

(***************************************************************************)
(* Orders: every field of the body varies                                  *)
(***************************************************************************)
InitOrder ==
    /\ db = "Database"
    /\ product = <<>>
    /\ order = <<>>
    /\ nextId = 1
    /\ response = NoReply

NextOrder ==
    \/ \E body \in ValidOrderBodies \cup InvalidOrderBodies : create_order(body, MaxOrders)
    \/ list_orders

SpecOrder == InitOrder /\ [][NextOrder]_vars

(***************************************************************************)
(* The mapper on documents the store holds from before                     *)
(***************************************************************************)
RawItems ==
    {<<>>, <<GoodItem>>, <<ItemWithImage, GoodItem>>,
     <<Item(IntV(1), IntV(0))>>, <<GoodItem, Item(IntV(-1), IntV(1))>>,
     <<[product_id |-> StrV(<<"1">>), price |-> IntV(1), quantity |-> IntV(1)]>>}

RawOrderDocs ==
    {[_id |-> ObjectId(0), customer_name |-> TitleA, customer_email |-> GoodEmail,
      shipping_address |-> TextD] @@ items @@ subtotal @@ tax @@ total @@ status :
        items \in {EmptyDict} \cup {[items |-> ListV(l)] : l \in RawItems},
        subtotal \in {EmptyDict, [subtotal |-> IntV(2)]},
        tax \in {EmptyDict, [tax |-> FloatV(1)]},
        total \in {EmptyDict, [total |-> IntV(3)]},
        status \in {EmptyDict, [status |-> Shipped]}}

RawProductDocs ==
    {LegacyProduct,
     [in_stock |-> BoolV(FALSE)] @@ LegacyProduct,
     [in_stock |-> None, description |-> TextD] @@ LegacyProduct}

InitStored ==
    /\ db = "Database"
    /\ product \in {<<d>> : d \in RawProductDocs}
    /\ order \in {<<d>> : d \in RawOrderDocs}
    /\ nextId = 1
    /\ response = NoReply

NextStored ==
    \/ list_products(None, None)
    \/ list_orders

SpecStored == InitStored /\ [][NextStored]_vars

(***************************************************************************)
(* The whole API, the store handle configured or not                       *)
(***************************************************************************)
ApiProductBodies ==
    {[title |-> TitleA, price |-> IntV(1), category |-> TitleA],
     [title |-> StrV(<<>>), price |-> FloatV(3), category |-> StrV(<<"A">>),
      in_stock |-> BoolV(FALSE)],
     [title |-> TitleA, price |-> IntV(-1), category |-> TitleA]}

ApiOrderBodies ==
    {OrderBody(GoodEmail, <<>>),
     OrderBody(MixedCaseEmail, <<GoodItem>>),
     OrderBody(GoodEmail, <<Item(IntV(1), IntV(0))>>)}

ListedNames(n) == [i \in 1..n |-> i]

Init ==
    /\ db \in {"None", "Database"}
    /\ product = <<>>
    /\ order = <<>>
    /\ nextId = 1
    /\ response = NoReply

Next ==
    \/ \E body \in ApiProductBodies : create_product(body, MaxProducts)
    \/ \E c \in {None, TitleA} : list_products(c, None)
    \/ \E body \in ApiOrderBodies : create_order(body, MaxOrders)
    \/ list_orders
    \/ \E n \in 0..MaxCollections, listingFails \in BOOLEAN, envSet \in BOOLEAN :
          /\ listingFails => n = 0
          /\ test_database(ListedNames(n), listingFails, envSet, envSet)

Spec == Init /\ [][Next]_vars

(***************************************************************************)
(* Properties                                                              *)
(***************************************************************************)
SameNumber(a, b) == Halves(a) = Halves(b)

\* q occurs in s as a literal substring, letter case ignored
LiteralContains(q, s) ==
    \E i \in 0..(Len(s) - Len(q)) : \A j \in 1..Len(q) : Lower(q[j]) = Lower(s[i + j])

ApiCreated(doc) == doc["_id"][2] >= 1

\* C1: with the store handle unconfigured, GET /products and GET /orders return
\* an empty sequence with status 200, and POST /products and POST /orders with a
\* body that passes validation fail with status 500, return no identifier and
\* store nothing.
C1_UnconfiguredStore ==
    db = "None" =>
        /\ product = <<>> /\ order = <<>>
        /\ response.op \in {"list_products", "list_orders"} =>
              response.status = 200 /\ response.body = <<>>
        /\ (response.op = "create_product" /\ ProductValid(response.req)) =>
              response.status = 500 /\ response.body = None
        /\ (response.op = "create_order" /\ OrderValid(response.req)) =>
              response.status = 500 /\ response.body = None

C1_Witness ==
    /\ db = "None"
    /\ response.op = "create_product"
    /\ ProductValid(response.req)
    /\ response.status = 500

\* a body of POST /orders with a negative price, a zero quantity or a malformed
\* customer_email
FaultyOrderBody(body) ==
    \/ body["customer_email"] \in BadEmails
    \/ \E i \in 1..Len(body["items"][2]) :
          LET item == body["items"][2][i]
          IN Halves(item["price"]) < 0 \/ item["quantity"][2] = 0

StoredOrderInRange(doc) ==
    /\ Halves(doc["subtotal"]) >= 0
    /\ Halves(doc["tax"]) >= 0
    /\ Halves(doc["total"]) >= 0
    /\ \A i \in 1..Len(doc["items"][2]) :
          /\ Halves(doc["items"][2][i]["price"]) >= 0
          /\ doc["items"][2][i]["quantity"][2] >= 1

FaultyOrderRejected ==
    (response'.op = "create_order" /\ FaultyOrderBody(response'.req)) =>
        response'.status = 422 /\ order' = order /\ product' = product

\* C2: every stored order has subtotal, tax and total >= 0 and items with
\* price >= 0 and quantity >= 1; a POST /orders body with a negative price, a
\* zero quantity or a malformed customer_email gets a validation error (422) and
\* adds no document.
C2_OrdersInRange ==
    /\ [](\A i \in 1..Len(order) : StoredOrderInRange(order[i]))
    /\ [][FaultyOrderRejected]_vars

C2_Witness ==
    /\ Len(order) >= 1
    /\ Len(order[1]["items"][2]) >= 1
    /\ response.op = "create_order"
    /\ response.status = 422
    /\ FaultyOrderBody(response.req)

\* the output of the document that a successful POST /products has just stored
CreatedProductOut == to_product_out(product[Len(product)])

\* C3: for a valid Product body, validating, storing and mapping with
\* to_product_out gives back title, description, price, category, image and
\* in_stock of the body (absent optional fields as null, price as a float of the
\* same value) under the new identifier, and in_stock is true when the body or
\* the stored document has no in_stock field.
C3_ProductRoundTrip ==
    /\ (response.op = "create_product" /\ response.status = 200) =>
          LET body == response.req
              out == CreatedProductOut
          IN /\ out.id = response.body
             /\ out.title = body["title"]
             /\ out.description = Get(body, "description", None)
             /\ out.price[1] = "float" /\ SameNumber(out.price, body["price"])
             /\ out.category = body["category"]
             /\ out.image = Get(body, "image", None)
             /\ out.in_stock = Get(body, "in_stock", BoolV(TRUE))
             /\ ("in_stock" \notin DOMAIN body => out.in_stock = BoolV(TRUE))
    /\ \A i \in 1..Len(product) :
          "in_stock" \notin DOMAIN product[i] =>
              to_product_out(product[i]).in_stock = BoolV(TRUE)

C3_Witness ==
    /\ response.op = "create_product"
    /\ response.status = 200
    /\ "in_stock" \notin DOMAIN response.req
    /\ "description" \in DOMAIN response.req
    /\ Len(product) = 2
    /\ "in_stock" \notin DOMAIN product[1]

\* what GET /products returns for the stored products that pass Keep
Listed(Keep(_)) == ListProductsBody(SelectSeq(product, Keep))

\* C4: GET /products with q and no category returns exactly the stored products
\* whose title contains q as a literal substring, letter case ignored.
C4_LiteralSubstring ==
    (response.op = "list_products" /\ IsNone(response.req.category) /\ IsStr(response.req.q)) =>
        LET Keep(doc) == LiteralContains(response.req.q[2], doc["title"][2])
        IN response.status = 200 /\ response.body = Listed(Keep)

\* the q filter of GET /products as the store applies it
PassesQ(doc, q) == ~Truthy(q) \/ RegexSearch(q[2], doc["title"][2], TRUE)

\* C5 as stated: for every string c, the empty string included, GET /products
\* with category c returns exactly the stored products of category c that pass
\* the q filter.
C5_AnyCategory ==
    (response.op = "list_products" /\ IsStr(response.req.category)) =>
        LET Keep(doc) == doc["category"] = response.req.category /\ PassesQ(doc, response.req.q)
        IN response.status = 200 /\ response.body = Listed(Keep)

\* C5 amended: for every non-empty string c, GET /products with category c
\* returns exactly the stored products whose category equals c, letter case
\* included, and that pass the q filter; with the empty string the category
\* filter is not applied.
C5_NonEmptyCategory ==
    /\ (response.op = "list_products" /\ Truthy(response.req.category)) =>
          LET Keep(doc) == doc["category"] = response.req.category /\ PassesQ(doc, response.req.q)
          IN response.status = 200 /\ response.body = Listed(Keep)
    /\ (response.op = "list_products" /\ ~Truthy(response.req.category)) =>
          LET Keep(doc) == PassesQ(doc, response.req.q)
          IN response.status = 200 /\ response.body = Listed(Keep)

C5_Witness ==
    /\ response.op = "list_products"
    /\ Truthy(response.req.category)
    /\ Truthy(response.req.q)
    /\ Len(product) = 1
    /\ Len(response.body) = 1

TitleMissing(body) == "title" \notin DOMAIN body
TitleEmpty(body) == "title" \in DOMAIN body /\ body["title"] = StrV(<<>>)

\* C6 as stated: POST /products with a missing or an empty title gets a
\* validation error, and no product created through the API has an empty title.
C6_TitleNonEmpty ==
    /\ (response.op = "create_product" /\ (TitleMissing(response.req) \/ TitleEmpty(response.req))) =>
          response.status = 422
    /\ \A i \in 1..Len(product) :
          ApiCreated(product[i]) => product[i]["title"] # StrV(<<>>)

MissingTitleRejected ==
    (response'.op = "create_product" /\ TitleMissing(response'.req)) =>
        response'.status = 422 /\ product' = product /\ order' = order

\* C6 amended: a Product's title is required: POST /products without a title
\* gets a validation error and stores nothing, so every product created through
\* the API has a title that is a string; the empty string is a title like any
\* other, and a body valid but for its empty title is stored.
C6_TitleRequired ==
    /\ [][MissingTitleRejected]_vars
    /\ [](\A i \in 1..Len(product) :
            ApiCreated(product[i]) => "title" \in DOMAIN product[i] /\ IsStr(product[i]["title"]))
    /\ []((response.op = "create_product" /\ response.req \in ValidProductBodies) =>
            /\ response.status = 200
            /\ product[Len(product)]["title"] = response.req["title"])

C6_Witness ==
    /\ response.op = "create_product"
    /\ TitleMissing(response.req)
    /\ response.status = 422
    /\ Len(product) >= 1
    /\ product[Len(product)]["title"] = StrV(<<>>)

EmptyItems == ListV(<<>>)

\* C7: with the store configured, POST /orders with a valid body whose items are
\* empty returns an identifier and stores the order, and GET /orders returns
\* every such order with an empty items sequence.
C7_EmptyItemsAccepted ==
    /\ (response.op = "create_order" /\ response.req \in ValidOrderBodies
            /\ response.req["items"] = EmptyItems) =>
          /\ response.status = 200
          /\ IsStr(response.body)
          /\ Len(order) >= 1
          /\ PyStrId(order[Len(order)]["_id"]) = response.body
          /\ order[Len(order)]["items"] = EmptyItems
    /\ response.op = "list_orders" =>
          /\ response.status = 200
          /\ Len(response.body) = Len(order)
          /\ \A i \in 1..Len(order) :
                /\ response.body[i].id = PyStrId(order[i]["_id"])
                /\ order[i]["items"] = EmptyItems => response.body[i].items = EmptyItems

C7_Witness ==
    /\ response.op = "list_orders"
    /\ Len(response.body) = 2
    /\ response.body[1].items = EmptyItems
    /\ response.body[2].items # EmptyItems

\* C8: GET /test always answers (status 200): with the handle and a listing that
\* succeeds, "Connected", "Connected & Working" and the first 10 of the listed
\* names; with the handle and a listing that fails, "Connected", a status other
\* than "Connected & Working" and no names; without the handle, "Not Connected"
\* and no names.
C8_TestNeverRaises ==
    response.op = "test_database" =>
        LET names == response.req.names
            out == response.body
        IN /\ response.status = 200
           /\ (db = "Database" /\ ~response.req.listingFails) =>
                 /\ out.connection_status = "Connected"
                 /\ out.database = "Connected & Working"
                 /\ Len(out.collections) <= CollectionsLimit
                 /\ Len(out.collections) = IF Len(names) < CollectionsLimit
                                           THEN Len(names) ELSE CollectionsLimit
                 /\ \A i \in 1..Len(out.collections) : out.collections[i] = names[i]
           /\ (db = "Database" /\ response.req.listingFails) =>
                 /\ out.connection_status = "Connected"
                 /\ out.database # "Connected & Working"
                 /\ out.collections = <<>>
           /\ db = "None" =>
                 /\ out.connection_status = "Not Connected"
                 /\ out.collections = <<>>

C8_Witness ==
    /\ response.op = "test_database"
    /\ db = "Database"
    /\ ~response.req.listingFails
    /\ Len(response.req.names) > CollectionsLimit
    /\ Len(response.body.collections) = CollectionsLimit

StoredItems(doc) == Get(doc, "items", EmptyItems)[2]

\* the item of the output for a stored item: the fields of the item, the price as
\* a float, an absent image as null
SameItem(out, item) ==
    /\ out.product_id = item["product_id"]
    /\ out.title = item["title"]
    /\ out.price[1] = "float" /\ SameNumber(out.price, item["price"])
    /\ out.quantity = item["quantity"]
    /\ out.image = Get(item, "image", None)

\* C9 as stated: to_order_out never fails on a stored order because of the
\* content of its items: they are not validated on read and come back as they
\* are stored, in the same order.
C9_ItemsNotValidated ==
    response.op = "list_orders" =>
        /\ response.status = 200
        /\ Len(response.body[1].items[2]) = Len(StoredItems(order[1]))
        /\ \A i \in 1..Len(StoredItems(order[1])) :
              SameItem(response.body[1].items[2][i], StoredItems(order[1])[i])

\* C9 amended: to_order_out does not fail because subtotal, tax, total, status
\* or items are absent: it returns the identifier as text, subtotal, tax and
\* total as floats defaulting to 0, status defaulting to "pending", and the items
\* in the same order.  The items are validated on read (OrderOut.items is a
\* List[OrderItem]): an item that is no valid OrderItem makes to_order_out fail,
\* and a valid item comes back with its price as a float and an absent image as
\* null.
C9_ItemsValidatedOnRead ==
    response.op = "list_orders" =>
        LET doc == order[1]
            items == StoredItems(doc)
            Amount(k) == IF k \in DOMAIN doc THEN Halves(doc[k]) ELSE 0
        IN /\ response.status = 500 <=> \E i \in 1..Len(items) : ~OrderItemValid(items[i])
           /\ response.status # 500 =>
                 LET out == response.body[1]
                 IN /\ response.status = 200
                    /\ out.id = StrV(<<"0">>)
                    /\ out.subtotal = FloatV(Amount("subtotal"))
                    /\ out.tax = FloatV(Amount("tax"))
                    /\ out.total = FloatV(Amount("total"))
                    /\ out.status = IF "status" \in DOMAIN doc THEN doc["status"] ELSE Pending
                    /\ Len(out.items[2]) = Len(items)
                    /\ \A i \in 1..Len(items) : SameItem(out.items[2][i], items[i])

C9_Witness ==
    /\ response.op = "list_orders"
    /\ response.status = 200
    /\ DOMAIN order[1] \cap {"subtotal", "tax", "total", "status"} = {}
    /\ Len(response.body[1].items[2]) = 2
    /\ "image" \notin DOMAIN StoredItems(order[1])[2]

IsPrefix(s, t) == Len(s) <= Len(t) /\ \A i \in 1..Len(s) : t[i] = s[i]

Ids(docs) == {docs[i]["_id"] : i \in 1..Len(docs)}

\* no step changes or removes a stored document, and only a POST that returns
\* an identifier adds one
StoreOnlyGrows ==
    /\ IsPrefix(product, product')
    /\ IsPrefix(order, order')
    /\ (response'.op \notin {"create_product", "create_order"} \/ response'.status # 200) =>
          product' = product /\ order' = order
    /\ response'.op = "create_product" => order' = order
    /\ response'.op = "create_order" => product' = product

\* what the last response says about the store
ResponseShowsStore ==
    /\ Ids(product) \cap Ids(order) = {}
    /\ (response.op = "create_product" /\ response.status = 200) =>
          /\ Len(product) >= 1
          /\ PyStrId(product[Len(product)]["_id"]) = response.body
          /\ \A i \in 1..(Len(product) - 1) : PyStrId(product[i]["_id"]) # response.body
          /\ \A i \in 1..Len(order) : PyStrId(order[i]["_id"]) # response.body
          /\ \A k \in DOMAIN response.req :
                k = "price" \/ product[Len(product)][k] = response.req[k]
          /\ SameNumber(product[Len(product)]["price"], response.req["price"])
    /\ (response.op = "create_order" /\ response.status = 200) =>
          /\ Len(order) >= 1
          /\ PyStrId(order[Len(order)]["_id"]) = response.body
          /\ \A i \in 1..(Len(order) - 1) : PyStrId(order[i]["_id"]) # response.body
          /\ \A i \in 1..Len(product) : PyStrId(product[i]["_id"]) # response.body
    /\ (response.op = "list_products" /\ IsNone(response.req.category)) =>
          /\ response.status = 200
          /\ Len(response.body) = Len(product)
          /\ \A i \in 1..Len(product) :
                /\ response.body[i].id = PyStrId(product[i]["_id"])
                /\ response.body[i].title = product[i]["title"]
                /\ response.body[i].price = product[i]["price"]
                /\ response.body[i].category = product[i]["category"]
                /\ response.body[i].in_stock = product[i]["in_stock"]
    /\ response.op = "list_orders" =>
          /\ response.status = 200
          /\ Len(response.body) = Len(order)
          /\ \A i \in 1..Len(order) :
                /\ response.body[i].id = PyStrId(order[i]["_id"])
                /\ response.body[i].customer_email = order[i]["customer_email"]
                /\ response.body[i].items = order[i]["items"]

\* C10: with the store configured no request updates or deletes a document: a
\* created document stays in its collection as created, an unfiltered GET returns
\* a record for every document of its own collection and of no other, and GET
\* requests, GET /test and rejected POST requests leave the documents unchanged.
C10_NoUpdateNoDelete ==
    /\ [][db = "Database" => StoreOnlyGrows]_vars
    /\ [](db = "Database" => ResponseShowsStore)

C10_Witness ==
    /\ db = "Database"
    /\ Len(product) = 2
    /\ Len(order) >= 1
    /\ response.op = "list_products"
    /\ IsNone(response.req.category)
    /\ Len(response.body) = 2

====
